---- MODULE Spec2Model ----
(***************************************************************************)
(* vault-openvpn (src/main.go): one command-line run at a time against a   *)
(* Vault PKI backend.  The backend's certificate store and the clock are   *)
(* the durable state; `run` is the state of the process that is running   *)
(* (or has just ended).  Every call to the backend is one step, and each   *)
(* step carries the code that follows the call up to the next call.        *)
(***************************************************************************)
EXTENDS Integers, Sequences, FiniteSets, TLC

\* ------------------------------------------------------------------ bounds
MaxCerts == 3        \* no process starts once the backend holds this many certificates
MaxTime == 2         \* the clock runs 1..MaxTime (epoch seconds)

FQDNs == {"A.vpn", "a.vpn"}
TTLs == {1}           \* values of --ttl, in seconds
InitTime == 1
FirstSerial == 255   \* serial numbers are FirstSerial, FirstSerial+1, ...

\* byte order of the common names (Go's string <), as a rank
FqdnRank(f) == IF f = "A.vpn" THEN 1 ELSE IF f = "a.vpn" THEN 2 ELSE 0

\* ------------------------------------------------------------- constants
actionList == "list"
actionMakeClientConfig == "client"
actionMakeServerConfig == "server"
actionRevoke == "revoke"
actionRevokeSerial == "revoke-serial"

Actions == {actionList, actionMakeClientConfig, actionMakeServerConfig,
            actionRevoke, actionRevokeSerial}
IssueActions == {actionMakeClientConfig, actionMakeServerConfig}

VARIABLES
    ca,     \* the backend's certificates, in the order LIST <mount>/certs gives
    now,    \* time.Now().Unix()
    run     \* the process: position, arguments, locals, calls made, output

vars == <<ca, now, run>>

\* ------------------------------------------------------- serial numbers
\* big.Int.Bytes(): big-endian bytes, no leading zero byte
RECURSIVE SerialBytes(_)
SerialBytes(n) == IF n = 0 THEN <<>> ELSE Append(SerialBytes(n \div 256), n % 256)

\* certutil.GetHexFormatted(cert.SerialNumber.Bytes(), ":"): one two-digit
\* group per byte; the sequence of byte values stands for the text
GetHexFormatted(n) == SerialBytes(n)

NoSerial == <<>>

\* ------------------------------------------------------------ the backend
\* A stored certificate: common name, serial number, validity window and how
\* READ <mount>/cert/<serial> presents revocation_time and certificate.
\*   rtForm: "int" (a json.Number Int64 reads), "absent", "unparsable" (a
\*           json.Number Int64 rejects), "wrongtype" (not a json.Number)
\*   certForm: "ok", "badder" (PEM of bytes x509 rejects), "nopem"
CaRecord(cn, sn, nb, na, rtForm, rt, certForm) ==
    [cn |-> cn, serial |-> sn, nb |-> nb, na |-> na,
     rtForm |-> rtForm, rt |-> rt, certForm |-> certForm]

\* positions of the certificate stored under the serial text s
Stored(s) == {i \in 1..Len(ca) : GetHexFormatted(ca[i].serial) = s}

\* the backend records a revocation of the certificate
Recorded(rec) == rec.rtForm = "int" /\ rec.rt > 0

\* variant: a revocation written for a revoked certificate clears its
\* revocation time
CaRevokeToggles(rec, t) == IF Recorded(rec) THEN [rec EXCEPT !.rt = 0]
                           ELSE [rec EXCEPT !.rtForm = "int", !.rt = t]

\* WRITE <mount>/revoke: the first revocation stamps the backend's clock,
\* a repeated one changes nothing
CaRevoke(rec, t) == IF Recorded(rec) THEN rec
                    ELSE [rec EXCEPT !.rtForm = "int", !.rt = t]

\* ------------------------------------------------------------ the process
NoCert == [cn |-> "", serial |-> 0, nb |-> 0, na |-> 0]
NoRead == [sn |-> NoSerial, cn |-> "", rtForm |-> "none", rt |-> 0, at |-> 0,
           kind |-> "none", revoked |-> FALSE]

IdleRun == [pc |-> "idle", action |-> "", fqdn |-> "", serial |-> NoSerial,
            autoRevoke |-> FALSE, ttl |-> 0,
            keys |-> <<>>, certs |-> <<>>, cert |-> NoCert,
            calls |-> <<>>, logs |-> <<>>, status |-> "none", err |-> <<>>,
            table |-> <<>>, rendered |-> FALSE, config |-> FALSE,
            dir |-> <<>>, last |-> NoRead, ca0 |-> <<>>]

\* one call to the backend, as the run's record keeps it.  op: "list", "read"
\* (Directory build), "lookup" (the read of revokeCertificateBySerial),
\* "revoke", "readca", "issue"; res: "ok", "err" (the code got an error to
\* return), "panic" (the code died on the answer)
Call(op, sn, res) == [op |-> op, sn |-> sn, res |-> res]

\* what a run leaves behind when it ends
Finish(r, status, err) == [r EXCEPT !.pc = "done", !.status = status, !.err = err]

\* a Go panic (nil dereference, failed type assertion): the process dies
Panic(r, what) == Finish(r, "panic", <<what>>)

\* ------------------------------------------------ fetchCertificateBySerial
\* client.Logical().Read(<mount>/cert/<serial>): the call fails, or answers
\* nil without an error (404, no such serial), or answers the stored record
NoResponse == [kind |-> "nil", rec |-> CaRecord("", 0, 0, 0, "absent", 0, "ok")]
ErrResponse == [kind |-> "err", rec |-> CaRecord("", 0, 0, 0, "absent", 0, "ok")]

Responses(s) ==
    {ErrResponse} \cup
    (IF Stored(s) = {} THEN {NoResponse}
     ELSE {[kind |-> "data", rec |-> ca[i]] : i \in Stored(s)})

\* variant: any revocation_time that is set counts, the clock is not asked
IsRevokedIgnoresClock(rec, t) == rec.rtForm = "int" /\ rec.rt > 0

\* variant: a certificate past its NotAfter counts as revoked
IsRevokedOrExpired(rec, t) ==
    \/ rec.na < t
    \/ IF rec.rtForm = "absent" THEN FALSE
       ELSE IF rec.rtForm = "unparsable" THEN FALSE
       ELSE rec.rt < t /\ rec.rt > 0

\* lines 251-258: revoked only when revocation_time is present, Int64 reads
\* it without error, and 0 < rt < time.Now().Unix()
IsRevoked(rec, t) ==
    IF rec.rtForm = "absent" THEN FALSE
    ELSE IF rec.rtForm = "unparsable" THEN FALSE
    ELSE rec.rt < t /\ rec.rt > 0

\* lines 244-263.  kind: "ok" (cert, revoked, nil), "err" (an error is
\* returned), "panic"
fetchCertificateBySerial(resp, t) ==
    IF resp.kind = "err"
    THEN [kind |-> "err", err |-> <<"Unable to read certificate", "backend">>,
          cert |-> NoCert, revoked |-> FALSE]
    ELSE IF resp.kind = "nil"
    THEN [kind |-> "panic", err |-> <<"nil secret">>, cert |-> NoCert, revoked |-> FALSE]
    ELSE IF resp.rec.rtForm = "wrongtype"
    THEN [kind |-> "panic", err |-> <<"revocation_time is no json.Number">>,
          cert |-> NoCert, revoked |-> FALSE]
    ELSE IF resp.rec.certForm = "nopem"
    THEN [kind |-> "panic", err |-> <<"no PEM block">>, cert |-> NoCert, revoked |-> FALSE]
    ELSE IF resp.rec.certForm = "badder"
    THEN [kind |-> "err", err |-> <<"x509: malformed certificate">>,
          cert |-> NoCert, revoked |-> IsRevoked(resp.rec, t)]
    ELSE [kind |-> "ok", err |-> <<>>,
          cert |-> [cn |-> resp.rec.cn, serial |-> resp.rec.serial,
                    nb |-> resp.rec.nb, na |-> resp.rec.na],
          revoked |-> IsRevoked(resp.rec, t)]

\* what the last read saw and decided, and the entry the Directory build
\* notes for each certificate it read (kept for the run's record)
ReadOf(s, resp, out, t) ==
    IF resp.kind # "data" THEN [NoRead EXCEPT !.sn = s, !.at = t, !.kind = out.kind]
    ELSE [sn |-> s, cn |-> resp.rec.cn, rtForm |-> resp.rec.rtForm, rt |-> resp.rec.rt,
          at |-> t, kind |-> out.kind, revoked |-> out.revoked]
DirEntry(s, out) == [sn |-> s, cn |-> out.cert.cn, revoked |-> out.revoked]

\* ------------------------------------------- fetchValidCertificatesFromVault
\* lines 284-288: revoked certificates are left out of the result
AppendValid(certs, cert, revoked) == IF revoked THEN certs ELSE Append(certs, cert)

\* ------------------------------------------------- revokeCertificateByFQDN
\* common names compared as strings.EqualFold does
Fold(f) == IF f = "A.vpn" THEN "a.vpn" ELSE f

\* variant: the common name is matched without regard to case
MatchesFold(certs, fqdn) == {i \in 1..Len(certs) : Fold(certs[i].cn) = Fold(fqdn)}

\* variant: the common name is not compared, the first certificate is taken
FirstCert(certs, fqdn) == IF certs = <<>> THEN 0 ELSE 1

\* lines 300-304: the first certificate of the list whose common name is fqdn
Matches(certs, fqdn) == {i \in 1..Len(certs) : certs[i].cn = fqdn}
Min(S) == CHOOSE x \in S : \A y \in S : x <= y
FirstMatch(certs, fqdn) ==
    IF Matches(certs, fqdn) = {} THEN 0 ELSE Min(Matches(certs, fqdn))

\* ---------------------------------------------------------- listCertificates
\* lines 180-187
Row(cert) == [FQDN |-> cert.cn, NotBefore |-> cert.nb, NotAfter |-> cert.na,
              Serial |-> GetHexFormatted(cert.serial)]
Rows(certs) == [i \in 1..Len(certs) |-> Row(certs[i])]

\* variant: the rows are compared by FQDN alone
RowLessByName(x, y) == FqdnRank(x.FQDN) < FqdnRank(y.FQDN)

\* lines 189-194: the less function given to sort.Slice
RowLess(x, y) ==
    IF x.FQDN = y.FQDN THEN x.NotBefore < y.NotBefore
    ELSE FqdnRank(x.FQDN) < FqdnRank(y.FQDN)

\* sort.Slice is not stable: any arrangement of the rows that less accepts
Perms(n) == {p \in [1..n -> 1..n] : \A i, j \in 1..n : i # j => p[i] # p[j]}
SortSlice(lines) ==
    {[i \in 1..Len(lines) |-> lines[p[i]]] : p \in
        {q \in Perms(Len(lines)) :
            \A i, j \in 1..Len(lines) : i < j => ~RowLess(lines[q[j]], lines[q[i]])}}

\* ------------------------------------------------------------ control flow
\* variant: the error of revokeCertificateByFQDN is dropped
generateCertificateConfigDropsError(r, e) == [r EXCEPT !.pc = "getca"]

\* lines 205-209: the error of revokeCertificateByFQDN ends the issue, its
\* success goes on to getCACert
generateCertificateConfig(r, e) ==
    IF e # <<>> THEN Finish(r, "error", <<"Could not revoke certificate">> \o e)
    ELSE [r EXCEPT !.pc = "getca"]

\* variant: main does not look at the error of the revoke actions
ReturnRevokeIgnoresError(r, e) ==
    IF r.action \in IssueActions THEN generateCertificateConfig(r, e)
    ELSE Finish(r, "ok", <<>>)

\* revokeCertificateByFQDN / revokeCertificateBySerial return e (<<>> is nil)
\* to generateCertificateConfig, or to main (lines 142-149)
ReturnRevoke(r, e) ==
    IF r.action \in IssueActions THEN generateCertificateConfig(r, e)
    ELSE IF e # <<>> THEN Finish(r, "error", e)
    ELSE Finish(r, "ok", <<>>)

\* lines 300-306, after fetchValidCertificatesFromVault gave certs
revokeCertificateByFQDN(r, certs) ==
    IF FirstMatch(certs, r.fqdn) = 0 THEN ReturnRevoke(r, <<>>)
    ELSE [r EXCEPT !.serial = GetHexFormatted(certs[FirstMatch(certs, r.fqdn)].serial),
                   !.pc = "revread"]

\* lines 180-201, after fetchValidCertificatesFromVault gave certs
listCertificates(r, certs) ==
    {[Finish(r, "ok", <<>>) EXCEPT !.table = t, !.rendered = TRUE] :
        t \in SortSlice(Rows(certs))}

\* fetchValidCertificatesFromVault returns (certs, nil) to its caller
FetchReturned(r, certs) ==
    IF r.action = actionList THEN listCertificates(r, certs)
    ELSE {revokeCertificateByFQDN(r, certs)}

\* fetchValidCertificatesFromVault returns an error (lines 176-178, 296-298)
FetchFailed(r, e) ==
    IF r.action = actionList THEN Finish(r, "error", e) ELSE ReturnRevoke(r, e)

\* variant: a serial whose read fails is skipped (continue for return)
fetchValidSkipsFailedRead(r, out) ==
    IF out.kind = "panic" THEN {Finish(r, "panic", out.err)}
    ELSE IF Len(r.keys) = 1
    THEN FetchReturned([r EXCEPT !.keys = <<>>,
                                 !.certs = IF out.kind = "err" THEN @
                                           ELSE AppendValid(@, out.cert, out.revoked)],
                       IF out.kind = "err" THEN r.certs
                       ELSE AppendValid(r.certs, out.cert, out.revoked))
    ELSE {[r EXCEPT !.keys = Tail(r.keys),
                    !.certs = IF out.kind = "err" THEN @
                              ELSE AppendValid(@, out.cert, out.revoked)]}

\* lines 279-289: one turn of the loop over the listed serials
fetchValidCertificatesFromVault(r, out) ==
    IF out.kind = "err" THEN {FetchFailed(r, out.err)}
    ELSE IF out.kind = "panic" THEN {Finish(r, "panic", out.err)}
    ELSE IF Len(r.keys) = 1
    THEN FetchReturned([r EXCEPT !.keys = <<>>,
                                 !.certs = AppendValid(r.certs, out.cert, out.revoked)],
                       AppendValid(r.certs, out.cert, out.revoked))
    ELSE {[r EXCEPT !.keys = Tail(r.keys),
                    !.certs = AppendValid(r.certs, out.cert, out.revoked)]}

\* lines 310-316: what revokeCertificateBySerial does with the read
revokeCertificateBySerial(r, out) ==
    IF out.kind = "err" THEN ReturnRevoke(r, out.err)
    ELSE IF out.kind = "panic" THEN Finish(r, "panic", out.err)
    ELSE IF out.revoked THEN ReturnRevoke(r, <<>>)
    ELSE [r EXCEPT !.cert = out.cert, !.pc = "revwrite"]

\* ------------------------------------------------------------------ actions
\* serial texts a caller may give to revoke-serial: the stored ones and one
\* the backend does not know
SerialArgs == {GetHexFormatted(ca[i].serial) : i \in 1..Len(ca)}
              \cup {GetHexFormatted(FirstSerial + Len(ca))}

\* variant: an issue runs the auto-revoke step whatever --auto-revoke says
StartAlwaysRevokes(a, f, s, ar, ttl) ==
    /\ run.pc \in {"idle", "done"}
    /\ Len(ca) < MaxCerts
    /\ run' = [IdleRun EXCEPT
                 !.action = a, !.fqdn = f, !.serial = s, !.autoRevoke = ar, !.ttl = ttl,
                 !.ca0 = ca,
                 !.pc = IF a = actionRevokeSerial THEN "revread" ELSE "list"]
    /\ UNCHANGED <<ca, now>>

\* lines 115-166: a new process starts on its action
Start(a, f, s, ar, ttl) ==
    /\ run.pc \in {"idle", "done"}
    /\ Len(ca) < MaxCerts
    /\ run' = [IdleRun EXCEPT
                 !.action = a, !.fqdn = f, !.serial = s, !.autoRevoke = ar, !.ttl = ttl,
                 !.ca0 = ca,
                 !.pc = IF a = actionRevokeSerial THEN "revread"
                        ELSE IF a \in IssueActions /\ ~ar THEN "getca"
                        ELSE "list"]
    /\ UNCHANGED <<ca, now>>

main ==
    \/ Start(actionList, "", NoSerial, FALSE, 0)
    \/ \E f \in FQDNs : Start(actionRevoke, f, NoSerial, FALSE, 0)
    \/ \E s \in SerialArgs : Start(actionRevokeSerial, "", s, FALSE, 0)
    \/ \E a \in IssueActions, f \in FQDNs, ar \in BOOLEAN, ttl \in TTLs :
          Start(a, f, NoSerial, ar, ttl)

\* lines 268-276: client.Logical().List(<mount>/certs)
ListCerts ==
    /\ run.pc = "list"
    /\ \/ \E e \in {<<"backend">>, <<"Got no data from backend">>} :
            run' = FetchFailed(
                     [run EXCEPT !.calls = Append(@, Call("list", NoSerial, "err"))], e)
       \/ /\ Len(ca) = 0        \* 404: List answers nil, nil; secret.Data panics
          /\ run' = Panic([run EXCEPT !.calls = Append(@, Call("list", NoSerial, "panic"))],
                          "nil secret")
       \/ /\ Len(ca) > 0
          /\ run' = [run EXCEPT !.calls = Append(@, Call("list", NoSerial, "ok")),
                                !.keys = [i \in 1..Len(ca) |-> GetHexFormatted(ca[i].serial)],
                                !.pc = "read"]
    /\ UNCHANGED <<ca, now>>

\* line 279: fetchCertificateBySerial for the next listed serial
ReadCert ==
    /\ run.pc = "read"
    /\ \E resp \in Responses(Head(run.keys)) :
         LET out == fetchCertificateBySerial(resp, now)
             r2 == [run EXCEPT
                      !.calls = Append(@, Call("read", Head(run.keys), out.kind)),
                      !.last = ReadOf(Head(run.keys), resp, out, now),
                      !.dir = IF out.kind = "ok"
                              THEN Append(@, DirEntry(Head(run.keys), out)) ELSE @]
         IN run' \in fetchValidCertificatesFromVault(r2, out)
    /\ UNCHANGED <<ca, now>>

\* line 310: fetchCertificateBySerial in revokeCertificateBySerial
RevokeRead ==
    /\ run.pc = "revread"
    /\ \E resp \in Responses(run.serial) :
         LET out == fetchCertificateBySerial(resp, now)
             r2 == [run EXCEPT
                      !.calls = Append(@, Call("lookup", run.serial, out.kind)),
                      !.last = ReadOf(run.serial, resp, out, now)]
         IN run' = revokeCertificateBySerial(r2, out)
    /\ UNCHANGED <<ca, now>>

\* variant: the record is emitted before the error of the write is tested
RevokeWriteLogsFirst ==
    /\ run.pc = "revwrite"
    /\ LET r2 == [run EXCEPT !.logs = Append(@, [msg |-> "Revoked certificate",
                                                 cn |-> run.cert.cn,
                                                 serial |-> run.serial])]
       IN \/ /\ run' = ReturnRevoke(
                         [r2 EXCEPT !.calls = Append(@, Call("revoke", run.serial, "err"))],
                         <<"Revoke of serial failed", "backend">>)
             /\ ca' = ca
          \/ /\ ca' = [i \in 1..Len(ca) |->
                         IF i \in Stored(run.serial) THEN CaRevoke(ca[i], now) ELSE ca[i]]
             /\ run' = ReturnRevoke(
                         [r2 EXCEPT !.calls = Append(@, Call("revoke", run.serial, "ok"))],
                         <<>>)
    /\ now' = now

\* lines 318-329: client.Logical().Write(<mount>/revoke)
RevokeWrite ==
    /\ run.pc = "revwrite"
    /\ \/ /\ run' = ReturnRevoke(
                      [run EXCEPT !.calls = Append(@, Call("revoke", run.serial, "err"))],
                      <<"Revoke of serial failed", "backend">>)
          /\ ca' = ca
       \/ /\ ca' = [i \in 1..Len(ca) |->
                      IF i \in Stored(run.serial) THEN CaRevoke(ca[i], now) ELSE ca[i]]
          /\ run' = ReturnRevoke(
                      [run EXCEPT
                         !.calls = Append(@, Call("revoke", run.serial, "ok")),
                         !.logs = Append(@, [msg |-> "Revoked certificate",
                                             cn |-> run.cert.cn, serial |-> run.serial])],
                      <<>>)
    /\ now' = now

\* lines 332-340 and 211-214: client.Logical().Read(<mount>/cert/ca)
getCACert ==
    /\ run.pc = "getca"
    /\ \/ run' = Finish([run EXCEPT !.calls = Append(@, Call("readca", NoSerial, "err"))],
                        "error",
                        <<"Could not load CA certificate", "Unable to read certificate",
                          "backend">>)
       \/ run' = [run EXCEPT !.calls = Append(@, Call("readca", NoSerial, "ok")),
                             !.pc = "issue"]
    /\ UNCHANGED <<ca, now>>

\* position p of the list gets the record, the rest keeps its order
InsertAt(seq, p, x) ==
    [i \in 1..(Len(seq) + 1) |->
        IF i < p THEN seq[i] ELSE IF i = p THEN x ELSE seq[i - 1]]

\* lines 342-366 and 216-227: client.Logical().Write(<mount>/issue/<role>),
\* then renderTemplate
generateCertificate ==
    /\ run.pc = "issue"
    /\ \/ /\ \E e \in {<<"backend">>, <<"Got no data from backend">>} :
               run' = Finish([run EXCEPT !.calls = Append(@, Call("issue", NoSerial, "err"))],
                             "error", <<"Could not generate new certificate">> \o e)
          /\ ca' = ca
       \/ \E p \in 1..(Len(ca) + 1), rendered \in BOOLEAN :
            LET sn == FirstSerial + Len(ca)
                r2 == [run EXCEPT
                         !.calls = Append(@, Call("issue", GetHexFormatted(sn), "ok")),
                         !.logs = Append(@, [msg |-> "Generated new certificate",
                                             cn |-> run.fqdn,
                                             serial |-> GetHexFormatted(sn)])]
            IN /\ ca' = InsertAt(ca, p, CaRecord(run.fqdn, sn, now, now + run.ttl,
                                                 "int", 0, "ok"))
               /\ run' = IF rendered
                         THEN [Finish(r2, "ok", <<>>) EXCEPT !.config = TRUE]
                         ELSE Finish(r2, "error",
                                     <<"Could not render configuration", "template">>)
    /\ now' = now

\* the clock
Tick ==
    /\ now < MaxTime
    /\ now' = now + 1
    /\ UNCHANGED <<ca, run>>

\* ---------------------------------------------------------- specifications
\* a backend as Vault leaves it: whole records, nothing revoked yet
InitRecord(cn, i) == CaRecord(cn, FirstSerial + i - 1, 0, InitTime, "int", 0, "ok")

InitCa ==
    UNION {{[i \in 1..n |-> InitRecord(cns[i], i)] : cns \in [1..n -> FQDNs]} :
            n \in 0..(MaxCerts - 1)}

Init ==
    /\ ca \in InitCa
    /\ now = InitTime
    /\ run = IdleRun

Next ==
    \/ main
    \/ ListCerts
    \/ ReadCert
    \/ RevokeRead
    \/ RevokeWrite
    \/ getCACert
    \/ generateCertificate
    \/ Tick

Spec == Init /\ [][Next]_vars

\* a backend whose one certificate answers READ in any shape the code may
\* meet: revocation_time absent, any integer around the clock's range, not
\* an Int64, not a json.Number; certificate whole, not DER, not PEM
WireRecords ==
    {CaRecord(cn, FirstSerial, 0, InitTime, form[1], form[2], certForm) :
        cn \in FQDNs,
        form \in ({<<"int", v>> : v \in (0 - 1)..(MaxTime + 1)}
                  \cup {<<"absent", 0>>, <<"unparsable", 0>>, <<"wrongtype", 0>>}),
        certForm \in {"ok", "badder", "nopem"}}

\* that certificate alone, or next to a whole one, before or after it
InitWire ==
    /\ \E w \in WireRecords :
          \/ ca = <<w>>
          \/ \E cn \in FQDNs :
                \/ ca = <<w, InitRecord(cn, 2)>>
                \/ ca = <<InitRecord(cn, 2), w>>
    /\ now = InitTime
    /\ run = IdleRun

\* the actions that read certificates and act on what they read; nothing is
\* issued, so the backend keeps the certificates it starts with
mainWire ==
    \/ Start(actionList, "", NoSerial, FALSE, 0)
    \/ \E f \in FQDNs : Start(actionRevoke, f, NoSerial, FALSE, 0)
    \/ \E s \in SerialArgs : Start(actionRevokeSerial, "", s, FALSE, 0)

NextWire ==
    \/ mainWire
    \/ ListCerts
    \/ ReadCert
    \/ RevokeRead
    \/ RevokeWrite
    \/ Tick

SpecWire == InitWire /\ [][NextWire]_vars

\* a backend that holds at most one certificate for each FQDN, none revoked,
\* and a tool whose issue actions all run with --auto-revoke (its default)
InitAuto ==
    /\ ca \in {c \in InitCa : \A i, j \in 1..Len(c) : i # j => c[i].cn # c[j].cn}
    /\ now = InitTime
    /\ run = IdleRun

mainAuto ==
    \/ Start(actionList, "", NoSerial, FALSE, 0)
    \/ \E f \in FQDNs : Start(actionRevoke, f, NoSerial, FALSE, 0)
    \/ \E s \in SerialArgs : Start(actionRevokeSerial, "", s, FALSE, 0)
    \/ \E a \in IssueActions, f \in FQDNs, ttl \in TTLs : Start(a, f, NoSerial, TRUE, ttl)

NextAuto ==
    \/ mainAuto
    \/ ListCerts
    \/ ReadCert
    \/ RevokeRead
    \/ RevokeWrite
    \/ getCACert
    \/ generateCertificate
    \/ Tick

SpecAuto == InitAuto /\ [][NextAuto]_vars

\* ------------------------------------------------------- what the claims use
Done == run.pc = "done"
Issuing == run.action \in IssueActions
AutoIssue == Issuing /\ run.autoRevoke

\* serials of the certificates of c with common name f that the backend has
\* not revoked
ActiveSerials(c, f) == {c[i].serial : i \in {j \in 1..Len(c) : c[j].cn = f /\ ~Recorded(c[j])}}
RevokedSerials(c) == {c[i].serial : i \in {j \in 1..Len(c) : Recorded(c[j])}}

CallsOf(ops) == {i \in 1..Len(run.calls) : run.calls[i].op \in ops}
RevokeStepOps == {"list", "read", "lookup", "revoke"}

AllCallsOk == \A i \in 1..Len(run.calls) : run.calls[i].res = "ok"

\* the Directory build of this run went through: the list and one read per
\* listed serial succeeded
BuildDone ==
    /\ Len(run.calls) > Len(run.ca0)
    /\ run.calls[1].op = "list"
    /\ \A i \in 1..(Len(run.ca0) + 1) : run.calls[i].res = "ok"

\* C1: an issue with auto-revoke that succeeds on an FQDN with exactly one
\* active certificate leaves exactly one active certificate for it, the new
\* one; the one that was active is revoked.
C1_OneActiveAfterIssue ==
    (Done /\ AutoIssue /\ run.status = "ok"
          /\ Cardinality(ActiveSerials(run.ca0, run.fqdn)) = 1)
    => /\ Cardinality(ActiveSerials(ca, run.fqdn)) = 1
       /\ ActiveSerials(ca, run.fqdn) \cap ActiveSerials(run.ca0, run.fqdn) = {}

\* C2: under auto-revoke, when the issuance write for an FQDN is about to be
\* sent, the backend holds no non-revoked certificate with that FQDN.
C2_NoneActiveAtIssuance ==
    (run.pc = "issue" /\ run.autoRevoke) => ActiveSerials(ca, run.fqdn) = {}

\* C3: when a call of the auto-revoke step of an issue fails, neither the CA
\* chain read nor the issuance write is sent, and the issue returns an error
\* that carries the error of the revoke step.
RevokeError(c) ==
    IF c.op = "list" THEN {<<"backend">>, <<"Got no data from backend">>}
    ELSE IF c.op \in {"read", "lookup"} THEN {<<"Unable to read certificate", "backend">>}
    ELSE {<<"Revoke of serial failed", "backend">>}

C3_RevokeFailureAbortsIssue ==
    AutoIssue =>
      \A i \in CallsOf(RevokeStepOps) :
        run.calls[i].res # "ok" =>
          /\ Done
          /\ i = Len(run.calls)
          /\ CallsOf({"readca", "issue"}) = {}
          /\ ca = run.ca0
          /\ run.calls[i].res = "err" =>
               /\ run.status = "error"
               /\ \E e \in RevokeError(run.calls[i]) :
                    run.err = <<"Could not revoke certificate">> \o e

C3_Witness ==
    /\ Done /\ AutoIssue
    /\ Len(run.calls) >= 3
    /\ run.calls[Len(run.calls)] = Call("revoke", run.serial, "err")
    /\ run.status = "error"

\* C4: revoke-serial on a serial the backend has already revoked, when no
\* call to the backend fails, returns success, sends no revocation write,
\* emits no record and leaves the backend unchanged.
C4_RevokedSerialIsNoOp ==
    (Done /\ run.action = actionRevokeSerial
          /\ AllCallsOk
          /\ \E i \in 1..Len(run.ca0) :
               /\ GetHexFormatted(run.ca0[i].serial) = run.serial
               /\ Recorded(run.ca0[i]))
    => /\ run.status = "ok"
       /\ CallsOf({"revoke"}) = {}
       /\ run.logs = <<>>
       /\ ca = run.ca0

\* C5: revoke on an FQDN without an active certificate, when the Directory
\* build succeeds (and no call to the backend fails), returns success, sends
\* no revocation write and leaves the backend unchanged.
C5_NoActiveIsNoOp ==
    (Done /\ run.action = actionRevoke /\ BuildDone /\ AllCallsOk
          /\ ActiveSerials(run.ca0, run.fqdn) = {})
    => /\ run.status = "ok"
       /\ CallsOf({"revoke"}) = {}
       /\ ca = run.ca0

\* C6: a read that fails during the Directory build ends the operation with
\* an error: it is the last call, nothing is rendered, and no revocation or
\* issuance write (nor any other call) follows on the partial list.
C6_FailedReadFailsBuild ==
    \A i \in CallsOf({"read"}) :
      run.calls[i].res # "ok" =>
        /\ Done
        /\ i = Len(run.calls)
        /\ run.status # "ok"
        /\ run.calls[i].res = "err" => run.status = "error"
        /\ ~run.rendered /\ run.table = <<>> /\ ~run.config
        /\ CallsOf({"lookup", "revoke", "readca", "issue"}) = {}
        /\ ca = run.ca0

C6_Witness ==
    /\ Done /\ run.status = "error"
    /\ Len(run.calls) >= 3
    /\ run.calls[Len(run.calls)].op = "read"
    /\ run.calls[Len(run.calls)].res = "err"
    /\ Len(run.certs) >= 1

\* C7: a Directory build never succeeds over a serial whose response is
\* malformed (revocation_time that is no integer, certificate that does not
\* parse): such a certificate is never classified and returned.
Malformed(rec) == rec.rtForm \in {"unparsable", "wrongtype"} \/ rec.certForm # "ok"

C7_MalformedFailsBuild ==
    BuildDone => \A i \in 1..Len(run.ca0) : ~Malformed(run.ca0[i])

\* C8: a read classifies the certificate as revoked when revocation_time is a
\* past timestamp (0 < rt < now), and as not revoked when revocation_time is
\* absent, zero or in the future.
C8_PastRevokedElseNot ==
    run.last.kind = "ok" =>
      /\ (run.last.rtForm = "int" /\ 0 < run.last.rt /\ run.last.rt < run.last.at)
            => run.last.revoked
      /\ (\/ run.last.rtForm = "absent"
          \/ run.last.rtForm = "int" /\ run.last.rt = 0
          \/ run.last.rtForm = "int" /\ run.last.rt > run.last.at)
            => ~run.last.revoked

C8_Witness ==
    /\ run.last.kind = "ok" /\ run.last.rtForm = "int"
    /\ run.last.rt > run.last.at
    /\ ~run.last.revoked
    /\ Len(run.certs) = 1 /\ run.action = actionList /\ Done

\* C9: the revoked flag of a read is true exactly when the revocation
\* timestamp is set (non-zero) and not in the future; a timestamp equal to the
\* current time counts as revoked.
C9_RevokedIffSetAndNotFuture ==
    run.last.kind = "ok" =>
      (run.last.revoked <=>
         (run.last.rtForm = "int" /\ run.last.rt # 0 /\ run.last.rt <= run.last.at))

\* C10: resolving an FQDN selects the first certificate, in the order the
\* backend lists the serials, that the Directory has as not revoked and whose
\* common name is the FQDN exactly; with no such certificate nothing is
\* selected and the resolution is no error.
Candidates == {i \in 1..Len(run.dir) : ~run.dir[i].revoked /\ run.dir[i].cn = run.fqdn}

C10_FirstExactActiveMatch ==
    ((run.action = actionRevoke \/ AutoIssue) /\ BuildDone) =>
      /\ \A i \in 1..Len(run.dir) : run.dir[i].sn = GetHexFormatted(run.ca0[i].serial)
      /\ IF Candidates = {}
         THEN /\ CallsOf({"lookup", "revoke"}) = {}
              /\ run.serial = NoSerial
              /\ run.action = actionRevoke => Done /\ run.status = "ok"
              /\ Issuing => run.pc # "done" \/ CallsOf({"readca"}) # {}
         ELSE /\ run.serial = run.dir[Min(Candidates)].sn
              /\ \A j \in CallsOf({"lookup", "revoke"}) : run.calls[j].sn = run.serial

C10_Witness ==
    /\ run.action = actionRevoke /\ BuildDone
    /\ Len(run.dir) = 2
    /\ run.dir[1].revoked /\ run.dir[1].cn = run.fqdn
    /\ ~run.dir[2].revoked /\ run.dir[2].cn = run.fqdn
    /\ run.serial = run.dir[2].sn
    /\ CallsOf({"revoke"}) # {}


\* C11: the rows a successful list renders are exactly the certificates the
\* Directory has as not revoked, each once and none other, in ascending order
\* of FQDN and, for one FQDN, of NotBefore.
ListedEntries == {i \in 1..Len(run.dir) : ~run.dir[i].revoked}

C11_RowsAreSortedActive ==
    (Done /\ run.action = actionList /\ run.status = "ok") =>
      /\ run.rendered
      /\ Len(run.table) = Cardinality(ListedEntries)
      /\ {run.table[i].Serial : i \in 1..Len(run.table)}
           = {run.dir[i].sn : i \in ListedEntries}
      /\ \A i \in 1..Len(run.table) :
           \E k \in 1..Len(run.ca0) : run.table[i] = Row(run.ca0[k])
      /\ \A i, j \in 1..Len(run.table) :
           i < j =>
             \/ FqdnRank(run.table[i].FQDN) < FqdnRank(run.table[j].FQDN)
             \/ /\ run.table[i].FQDN = run.table[j].FQDN
                /\ run.table[i].NotBefore <= run.table[j].NotBefore

C11_Witness ==
    /\ Done /\ run.action = actionList /\ run.status = "ok"
    /\ Len(run.table) = 2 /\ Len(run.ca0) = 2
    /\ run.table[1].FQDN = run.table[2].FQDN
    /\ run.table[1].NotBefore < run.table[2].NotBefore
    /\ run.table[1] = Row(run.ca0[2])
    /\ run.table[2] = Row(run.ca0[1])


\* C12: revoke-serial on a serial whose read fails - the call fails, or the
\* backend holds no such serial - returns an error; it sends no revocation
\* write and does not come back as a success.
C12_FailedReadIsError ==
    (Done /\ run.action = actionRevokeSerial /\ run.calls[1].res # "ok") =>
      /\ run.status = "error"
      /\ CallsOf({"revoke"}) = {}
      /\ ca = run.ca0


\* C13: the emitted records are, in order, one per revocation write and
\* issuance write that succeeded, each with the serial the write was for and
\* the common name of the certificate that serial names; a run without a
\* successful write (no-op revocation, failed write) emits none.
SuccessfulWrite(c) == c.op \in {"revoke", "issue"} /\ c.res = "ok"
SuccessfulWrites == SelectSeq(run.calls, SuccessfulWrite)

C13_OneRecordPerWrite ==
    /\ Len(run.logs) = Len(SuccessfulWrites)
    /\ \A k \in 1..Len(SuccessfulWrites) :
         /\ run.logs[k].serial = SuccessfulWrites[k].sn
         /\ run.logs[k].msg = IF SuccessfulWrites[k].op = "revoke"
                              THEN "Revoked certificate"
                              ELSE "Generated new certificate"
         /\ \E i \in 1..Len(ca) :
              /\ GetHexFormatted(ca[i].serial) = SuccessfulWrites[k].sn
              /\ ca[i].cn = run.logs[k].cn
              /\ SuccessfulWrites[k].op = "revoke" => Recorded(ca[i])

C13_Witness ==
    /\ Done /\ AutoIssue /\ run.status = "ok"
    /\ Len(run.logs) = 2
    /\ run.logs[1].msg = "Revoked certificate"
    /\ run.logs[2].msg = "Generated new certificate"
    /\ run.logs[1].cn = run.fqdn
    /\ run.logs[1].serial # run.logs[2].serial


\* C14: in an issue the calls of the auto-revoke step (when enabled) come
\* first, then the read of the CA certificate, then the issuance write.  When
\* the read of the CA certificate fails no issuance write is sent and the
\* issue returns an error; a revocation the auto-revoke step has written
\* stays, and the FQDN is left without an active certificate.
IssueCallOrder ==
    /\ \A i \in CallsOf(RevokeStepOps), j \in CallsOf({"readca", "issue"}) : i < j
    /\ \A j \in CallsOf({"readca"}), k \in CallsOf({"issue"}) : j < k
    /\ Cardinality(CallsOf({"readca"})) <= 1
    /\ Cardinality(CallsOf({"issue"})) <= 1
    /\ CallsOf({"issue"}) # {} => CallsOf({"readca"}) # {}
    /\ (run.autoRevoke /\ run.calls # <<>>) => run.calls[1].op = "list"
    /\ ~run.autoRevoke => CallsOf(RevokeStepOps) = {}

CaReadFailed == \E j \in CallsOf({"readca"}) : run.calls[j].res # "ok"

CaReadFailureAborts ==
    CaReadFailed =>
      /\ Done /\ run.status = "error"
      /\ run.err[1] = "Could not load CA certificate"
      /\ CallsOf({"issue"}) = {}
      /\ Len(ca) = Len(run.ca0)

RevocationStays ==
    CaReadFailed =>
      \A i \in CallsOf({"revoke"}) :
        run.calls[i].res = "ok" =>
          \E k \in Stored(run.calls[i].sn) : Recorded(ca[k])

C14_OrderedIssueNoRollback ==
    Issuing =>
      /\ IssueCallOrder
      /\ CaReadFailureAborts
      /\ RevocationStays
      /\ (CaReadFailed /\ run.autoRevoke) => ActiveSerials(ca, run.fqdn) = {}


\* C15: revoked is terminal.  In every step each certificate the backend
\* holds is still held; one that is revoked keeps its record, revocation time
\* included, and one that is not either keeps its record or becomes revoked,
\* nothing else of it changing.
SameButRevocation(x, y) ==
    [x EXCEPT !.rtForm = "int", !.rt = 0] = [y EXCEPT !.rtForm = "int", !.rt = 0]

C16_FirstFailureEndsRun ==
    \A i \in 1..Len(run.calls) :
      run.calls[i].res # "ok" =>
        /\ i = Len(run.calls)
        /\ Done
        /\ run.status # "ok"
        /\ run.err # <<>>
        /\ run.calls[i].res = "err" => run.status = "error"
        /\ ~run.config

C16_Witness ==
    /\ Done /\ run.action = actionRevoke /\ run.status = "error"
    /\ Len(run.calls) >= 4
    /\ run.calls[Len(run.calls)] = Call("revoke", run.serial, "err")
    /\ run.err = <<"Revoke of serial failed", "backend">>
    /\ ca = run.ca0


\* C17: NotAfter plays no part.  A certificate without a revocation time,
\* expired or not, is classified not revoked, is in the Directory and in the
\* listing, and revoke by FQDN selects it when it is the first certificate of
\* the list with that common name.
Unrevoked(c) == {i \in 1..Len(c) : ~Recorded(c[i])}

C17_ExpiryIsIgnored ==
    /\ \A i \in 1..Len(run.dir) :
         /\ run.dir[i].sn = GetHexFormatted(run.ca0[i].serial)
         /\ i \in Unrevoked(run.ca0) => ~run.dir[i].revoked
    /\ (Done /\ run.action = actionList /\ run.status = "ok") =>
         \A i \in Unrevoked(run.ca0) :
           \E k \in 1..Len(run.table) : run.table[k] = Row(run.ca0[i])
    /\ ((run.action = actionRevoke \/ AutoIssue) /\ BuildDone) =>
         \A i \in Unrevoked(run.ca0) :
           /\ run.ca0[i].cn = run.fqdn => run.serial # NoSerial
           /\ (run.ca0[i].cn = run.fqdn /\ i = Min(Matches(run.ca0, run.fqdn)))
                => run.serial = GetHexFormatted(run.ca0[i].serial)

C17_Witness ==
    /\ Done /\ run.action = actionRevoke /\ run.status = "ok"
    /\ run.calls[Len(run.calls)] = Call("revoke", run.serial, "ok")
    /\ run.last.sn = run.serial /\ ~run.last.revoked
    /\ \E i \in Unrevoked(run.ca0) :
         /\ GetHexFormatted(run.ca0[i].serial) = run.serial
         /\ run.ca0[i].na < run.last.at
         /\ Recorded(ca[i])


\* C18: a run of revokeCertificateByFQDN sends at most one revocation write,
\* and only for a serial that the Directory and the read before the write
\* have as not revoked and with the FQDN as common name; every certificate
\* other than the one written for keeps its record.
RevokeWrites == CallsOf({"revoke"})

C18_OneWriteForTheMatch ==
    (run.action = actionRevoke \/ AutoIssue) =>
      /\ Cardinality(RevokeWrites) <= 1
      /\ \A j \in RevokeWrites :
           /\ \E i \in 1..Len(run.dir) :
                /\ run.dir[i].sn = run.calls[j].sn
                /\ run.dir[i].cn = run.fqdn
                /\ ~run.dir[i].revoked
                /\ run.ca0[i].cn = run.fqdn
                /\ GetHexFormatted(run.ca0[i].serial) = run.calls[j].sn
           /\ run.calls[j - 1] = Call("lookup", run.calls[j].sn, "ok")
           /\ run.last.sn = run.calls[j].sn /\ ~run.last.revoked
      /\ \A i \in 1..Len(run.ca0) :
           (\A j \in RevokeWrites :
              \/ run.calls[j].sn # GetHexFormatted(run.ca0[i].serial)
              \/ run.calls[j].res # "ok")
           => \E k \in 1..Len(ca) : ca[k] = run.ca0[i]

C18_Witness ==
    /\ Done /\ run.action = actionRevoke /\ run.status = "ok"
    /\ Len(run.ca0) = 2
    /\ run.ca0[1].cn = run.fqdn /\ run.ca0[2].cn = run.fqdn
    /\ ~Recorded(run.ca0[1]) /\ ~Recorded(run.ca0[2])
    /\ run.calls[Len(run.calls)] = Call("revoke", GetHexFormatted(run.ca0[1].serial), "ok")
    /\ Recorded(ca[1]) /\ ca[2] = run.ca0[2]


\* C19: when every FQDN starts with at most one active certificate, and
\* every issue runs with auto-revoke, every FQDN has at most one active
\* certificate ever after, whatever call fails.
C19_AtMostOneActive ==
    \A f \in FQDNs : Cardinality(ActiveSerials(ca, f)) <= 1


\* C20: an issue without auto-revoke sends no list, no read of a certificate
\* and no revocation write; every certificate the backend held keeps its
\* record, and when the issue succeeds the FQDN has exactly one active
\* certificate more than before.
C20_PlainIssueOnlyAdds ==
    (Issuing /\ ~run.autoRevoke) =>
      /\ CallsOf(RevokeStepOps) = {}
      /\ \A i \in 1..Len(run.ca0) : \E k \in 1..Len(ca) : ca[k] = run.ca0[i]
      /\ CallsOf({"issue"}) = {} => ca = run.ca0
      /\ run.status = "ok" =>
           /\ Len(ca) = Len(run.ca0) + 1
           /\ Cardinality(ActiveSerials(ca, run.fqdn))
                = Cardinality(ActiveSerials(run.ca0, run.fqdn)) + 1
           /\ \A f \in FQDNs \ {run.fqdn} :
                ActiveSerials(ca, f) = ActiveSerials(run.ca0, f)

C20_Witness ==
    /\ Done /\ Issuing /\ ~run.autoRevoke /\ run.status = "ok"
    /\ Cardinality(ActiveSerials(run.ca0, run.fqdn)) = 1
    /\ Cardinality(ActiveSerials(ca, run.fqdn)) = 2
    /\ Len(run.calls) = 2

====
